---- MODULE Spec2Model ----
(***************************************************************************)
(* The offline event cache of the Telegram calendar Mini App               *)
(* (frontend/src/services/cache.ts): an IndexedDB object store `events`,   *)
(* keyed by `id`, with the index `by-start-time` on `start_time`.          *)
(*                                                                         *)
(* Every exported function opens one IndexedDB transaction and issues its  *)
(* requests one await at a time.  A step of the model is the code between  *)
(* two awaits.  The transaction works on its own view of the store; the    *)
(* view becomes the store when the transaction commits, and is dropped     *)
(* when the transaction aborts.                                            *)
(***************************************************************************)
EXTENDS Integers, Sequences, FiniteSets, TLC

VARIABLES db, store, tx, waiting, last, lastWrite, page

vars == <<db, store, tx, waiting, last, lastWrite, page>>

(***************************************************************************)
(* Bounds of the model.                                                    *)
(***************************************************************************)
\* instants are whole hours counted from 2024-01-01T00:00:00Z
MaxInst == 2
\* longest event list handed to cacheEvents / syncCacheWithApiEvents
MaxApiLen == 2
\* most handler calls of the page that are in flight at the same time
MaxFlights == 2

Ids == {"a", "b"}
NoId == "undefined"
Instants == 0 .. MaxInst

(***************************************************************************)
(* Timestamps.  A start_time is an ISO-8601 string; the model keeps the    *)
(* instant it denotes and the representation it is written in, and         *)
(* StartTimeString renders the characters (as code units) the index sees.  *)
(*   "ms"    2024-01-01T01:00:00.000Z   (Date.prototype.toISOString)       *)
(*   "Z"     2024-01-01T01:00:00Z       (the documented API format)        *)
(*   "naive" 2024-01-01T01:00:00        (no zone marker, meant as UTC)     *)
(*   "plus2" 2024-01-01T03:00:00+02:00  (numeric offset)                   *)
(***************************************************************************)
Missing == [inst |-> 0, fmt |-> "undefined"]
Stamp(i, f) == [inst |-> i, fmt |-> f]

Pad2(n) == <<48 + (n \div 10), 48 + (n % 10)>>

\* "2024-01-DDTHH:00:00" for the hour h of January 2024 (UTC wall clock)
DateTime(h) ==
  <<50, 48, 50, 52, 45, 48, 49, 45>> \o Pad2(1 + (h \div 24)) \o <<84>>
    \o Pad2(h % 24) \o <<58, 48, 48, 58, 48, 48>>

\* Date.prototype.toISOString: always UTC, always milliseconds, always "Z"
toISOString(h) == DateTime(h) \o <<46, 48, 48, 48, 90>>

StartTimeString(st) ==
  CASE st.fmt = "ms" -> toISOString(st.inst)
    [] st.fmt = "Z" -> DateTime(st.inst) \o <<90>>
    [] st.fmt = "naive" -> DateTime(st.inst)
    [] st.fmt = "plus2" -> DateTime(st.inst + 2) \o <<43, 48, 50, 58, 48, 48>>

\* IndexedDB orders string keys by code unit: the first difference decides,
\* and a proper prefix sorts first.
LexLess(s, t) ==
  \E k \in 1 .. Len(t) :
    /\ k <= Len(s) + 1
    /\ \A j \in 1 .. (k - 1) : s[j] = t[j]
    /\ IF k <= Len(s) THEN s[k] < t[k] ELSE TRUE

\* IDBKeyRange.bound(lower, upper): both bounds included
KeyRangeBound(lower, upper) == [lower |-> lower, upper |-> upper]
Includes(range, key) == ~LexLess(key, range.lower) /\ ~LexLess(range.upper, key)

(***************************************************************************)
(* The object store `events` (keyPath 'id') and its index.                 *)
(***************************************************************************)
IdString == ("a" :> <<97>>) @@ ("b" :> <<98>>)

\* the key path 'id' yields a valid key
HasKey(value) == value.id # NoId

\* put that adds the record and leaves the one stored under the key
PutAppend(view, value) == view \cup {value}

\* put that keeps the record already stored under the key
PutIfAbsent(view, value) ==
  IF \E r \in view : r.id = value.id THEN view ELSE view \cup {value}

\* IDBObjectStore.put: insert, or replace the record stored under the key
Put(view, value) == {r \in view : r.id # value.id} \cup {value}

\* delete of every record up to the key, as delete(IDBKeyRange.upperBound(key))
DeleteUpTo(view, key) ==
  {r \in view : LexLess(IdString[key], IdString[r.id])}

\* IDBObjectStore.delete: no record under the key is not an error
Delete(view, key) == {r \in view : r.id # key}

\* the index holds the records whose start_time is a valid key
IndexRecords(view) == {r \in view : r.start_time # Missing}

\* index order: by key, records with equal keys by primary key
IndexLess(r, s) ==
  \/ LexLess(StartTimeString(r.start_time), StartTimeString(s.start_time))
  \/ /\ StartTimeString(r.start_time) = StartTimeString(s.start_time)
     /\ LexLess(IdString[r.id], IdString[s.id])

StoreLess(r, s) == LexLess(IdString[r.id], IdString[s.id])

RECURSIVE IndexOrder(_)
IndexOrder(S) ==
  IF S = {} THEN <<>>
  ELSE LET m == CHOOSE x \in S : \A y \in S : ~IndexLess(y, x)
       IN <<m>> \o IndexOrder(S \ {m})

RECURSIVE StoreOrder(_)
StoreOrder(S) ==
  IF S = {} THEN <<>>
  ELSE LET m == CHOOSE x \in S : \A y \in S : ~StoreLess(y, x)
       IN <<m>> \o StoreOrder(S \ {m})

\* index.openCursor(range) followed by cursor.continue() until null
IndexCursor(view, range) ==
  IndexOrder({r \in IndexRecords(view) :
                Includes(range, StartTimeString(r.start_time))})

\* a walk of the records through the index by-start-time
StoreCursorByIndex(view) == IndexOrder(IndexRecords(view))

\* store.openCursor() followed by cursor.continue() until null
StoreCursor(view) == StoreOrder(view)

SeqIds(s) == [k \in 1 .. Len(s) |-> s[k].id]
Range(s) == {s[k] : k \in 1 .. Len(s)}

\* the start_time of r denotes an instant within [s, t], bounds included
InRange(r, s, t) ==
  /\ r.start_time # Missing
  /\ s <= r.start_time.inst
  /\ r.start_time.inst <= t

RecordsOf(view, id) == {r \in view : r.id = id}

ListIds(events) == {events[k].id : k \in 1 .. Len(events)}

\* tx.store.put of each event of a list, in order
RECURSIVE PutAll(_, _)
PutAll(view, events) ==
  IF events = <<>> THEN view
  ELSE PutAll(Put(view, Head(events)), Tail(events))

\* what a completed syncCacheWithApiEvents(events, startDate, endDate) makes
\* of the records `pre`: the records the range scan finds and the list does
\* not name are deleted, every event that has a key is put
FullyUpdated(pre, events, startDate, endDate) ==
  LET range == KeyRangeBound(toISOString(startDate), toISOString(endDate))
      stale == {r \in IndexRecords(pre) :
                  /\ Includes(range, StartTimeString(r.start_time))
                  /\ r.id \notin ListIds(events)}
  IN PutAll(pre \ stale, SelectSeq(events, HasKey))

\* what getCachedEvents(startDate, endDate) finds in the records `view`
QueryOn(view, startDate, endDate) ==
  IndexCursor(view, KeyRangeBound(toISOString(startDate),
                                  toISOString(endDate)))

(***************************************************************************)
(* Calls, transactions and the record of the last finished call.           *)
(***************************************************************************)
Absent == [absent |-> TRUE]
NoWrite == [nowrite |-> TRUE]

\* event lists handed in by the callers, drawn from the universe U
Lists(U) == UNION {[1 .. n -> U] : n \in 0 .. MaxApiLen}

\* startDate / endDate as the callers pass them: a month, or today .. +3 months
DateRanges == {r \in Instants \X Instants : r[1] < r[2]}

\* what a call knows of the call whose transaction was live when it was made
NoOver ==
  [fn |-> "none", events |-> <<>>, startDate |-> 0, endDate |-> 0,
   ids |-> {}, eventId |-> NoId, outcome |-> "none", pre |-> {},
   post |-> {}]

NoTx ==
  [fn |-> "none", pc |-> "none", events |-> <<>>, startDate |-> 0,
   endDate |-> 0, ids |-> {}, eventId |-> NoId, view |-> {}, todo |-> <<>>,
   i |-> 1, writes |-> [id \in Ids |-> NoWrite], result |-> <<>>,
   started |-> FALSE, over |-> NoOver]

NoCall ==
  [fn |-> "none", events |-> <<>>, startDate |-> 0, endDate |-> 0,
   ids |-> {}, eventId |-> NoId, outcome |-> "none", pre |-> {},
   result |-> <<>>, over |-> NoOver]

\* database.transaction('events', mode): the view starts as the store
Transaction(fn, pc, events, startDate, endDate, ids, eventId) ==
  [NoTx EXCEPT !.fn = fn, !.pc = pc, !.events = events,
               !.startDate = startDate, !.endDate = endDate, !.ids = ids,
               !.eventId = eventId, !.view = store]

Finished(outcome) ==
  [fn |-> tx.fn, events |-> tx.events, startDate |-> tx.startDate,
   endDate |-> tx.endDate, ids |-> tx.ids, eventId |-> tx.eventId,
   outcome |-> outcome, pre |-> store, result |-> tx.result,
   over |-> tx.over]

\* the calls waiting behind the transaction that finishes learn how it ended
Overtaken(outcome, post) ==
  [k \in 1 .. Len(waiting) |->
     IF waiting[k].over.outcome = "pending"
     THEN [waiting[k] EXCEPT !.over.outcome = outcome, !.over.post = post]
     ELSE waiting[k]]

\* initCache: open the database on first use, reuse the handle afterwards
initCache == IF db = "null" THEN "open" ELSE db

Idle == tx.fn = "none" /\ waiting = <<>> /\ last.fn = "none"

\* the function is entered: await initCache(), then database.transaction
Call(t) ==
  /\ db' = initCache
  /\ tx' = [t EXCEPT !.started = TRUE]
  /\ last' = NoCall
  /\ UNCHANGED <<store, waiting, lastWrite>>

Begin(t) ==
  /\ Call(t)
  /\ UNCHANGED page

\* await tx.done resolves: the transaction's view becomes the store
Commit(outcome) ==
  /\ store' = tx.view
  /\ lastWrite' = [id \in Ids |-> IF tx.writes[id] = NoWrite
                                    THEN lastWrite[id] ELSE tx.writes[id]]
  /\ last' = Finished(outcome)
  /\ tx' = NoTx
  /\ waiting' = Overtaken(outcome, tx.view)
  /\ UNCHANGED <<db, page>>

\* a request (or the commit) fails with a storage fault: IndexedDB aborts
\* the transaction, nothing of it reaches the store, the call rejects
TxAbort ==
  /\ tx.fn # "none"
  /\ last' = Finished("aborted")
  /\ tx' = NoTx
  /\ waiting' = Overtaken("aborted", store)
  /\ UNCHANGED <<db, store, lastWrite, page>>

\* tx.store.put(event) of the loops in cacheEvents / syncCacheWithApiEvents.
\* An event without id makes put throw DataError: the function rejects
\* there, no request is pending, and the transaction commits what it has.
PutNext ==
  LET event == tx.events[tx.i]
  IN IF HasKey(event)
     THEN /\ tx' = [tx EXCEPT !.view = Put(tx.view, event), !.i = tx.i + 1,
                              !.writes[event.id] = event]
          /\ UNCHANGED <<db, store, waiting, last, lastWrite, page>>
     ELSE Commit("threw")

\* tx.store.delete(key)
DeleteKey(key, rest) ==
  /\ tx' = [tx EXCEPT !.view = Delete(tx.view, key), !.todo = rest,
                      !.writes[key] = Absent]
  /\ UNCHANGED <<db, store, waiting, last, lastWrite, page>>

(***************************************************************************)
(* cacheEvents(events)                                                     *)
(***************************************************************************)
CacheEventsBegin(U) ==
  /\ Idle
  /\ \E events \in Lists(U) :
       Begin(Transaction("cacheEvents", "put", events, 0, 0, {}, NoId))

CacheEventsPut ==
  /\ tx.fn = "cacheEvents"
  /\ tx.i <= Len(tx.events)
  /\ PutNext

CacheEventsDone ==
  /\ tx.fn = "cacheEvents"
  /\ tx.i > Len(tx.events)
  /\ Commit("ok")

(***************************************************************************)
(* removeEventFromCache(eventId)                                           *)
(***************************************************************************)
RemoveEventBegin ==
  /\ Idle
  /\ \E eventId \in Ids :
       Begin(Transaction("removeEventFromCache", "delete", <<>>, 0, 0, {},
                           eventId))

RemoveEventDelete ==
  /\ tx.fn = "removeEventFromCache"
  /\ tx.pc = "delete"
  /\ tx' = [tx EXCEPT !.view = Delete(tx.view, tx.eventId), !.pc = "done",
                      !.writes[tx.eventId] = Absent]
  /\ UNCHANGED <<db, store, waiting, last, lastWrite, page>>

RemoveEventDone ==
  /\ tx.fn = "removeEventFromCache"
  /\ tx.pc = "done"
  /\ Commit("ok")

(***************************************************************************)
(* syncCacheWithApiEvents(apiEvents, startDate, endDate)                   *)
(***************************************************************************)
apiEventIds(t) == {t.events[k].id : k \in 1 .. Len(t.events)}

\* the cached ids still to be visited that the delete loop will delete
NotInApi(t) == SelectSeq(t.todo, LAMBDA id : id \notin apiEventIds(t))

SyncBegin(U) ==
  /\ Idle
  /\ \E apiEvents \in Lists(U), r \in DateRanges :
       Begin(Transaction("syncCacheWithApiEvents", "scan", apiEvents, r[1],
                           r[2], {}, NoId))

SyncScan ==
  /\ tx.fn = "syncCacheWithApiEvents"
  /\ tx.pc = "scan"
  /\ LET startKey == toISOString(tx.startDate)
         endKey == toISOString(tx.endDate)
         cursor == IndexCursor(tx.view, KeyRangeBound(startKey, endKey))
     IN tx' = [tx EXCEPT !.todo = SeqIds(cursor), !.pc = "write"]
  /\ UNCHANGED <<db, store, waiting, last, lastWrite, page>>

SyncDelete ==
  /\ tx.fn = "syncCacheWithApiEvents"
  /\ tx.pc = "write"
  /\ NotInApi(tx) # <<>>
  /\ DeleteKey(Head(NotInApi(tx)), Tail(NotInApi(tx)))

SyncPut ==
  /\ tx.fn = "syncCacheWithApiEvents"
  /\ tx.pc = "write"
  /\ NotInApi(tx) = <<>>
  /\ tx.i <= Len(tx.events)
  /\ PutNext

SyncDone ==
  /\ tx.fn = "syncCacheWithApiEvents"
  /\ tx.pc = "write"
  /\ NotInApi(tx) = <<>>
  /\ tx.i > Len(tx.events)
  /\ Commit("ok")

(***************************************************************************)
(* removeDeletedEventsFromCache(apiEventIds) and                           *)
(* removeAllEventsNotInList(validEventIds): the same body twice            *)
(***************************************************************************)
NotValid(t) == SelectSeq(t.todo, LAMBDA id : id \notin t.ids)

PurgeScan ==
  /\ tx.pc = "scan"
  /\ tx' = [tx EXCEPT !.todo = SeqIds(StoreCursor(tx.view)), !.pc = "write"]
  /\ UNCHANGED <<db, store, waiting, last, lastWrite, page>>

PurgeDelete ==
  /\ tx.pc = "write"
  /\ NotValid(tx) # <<>>
  /\ DeleteKey(Head(NotValid(tx)), Tail(NotValid(tx)))

PurgeDone ==
  /\ tx.pc = "write"
  /\ NotValid(tx) = <<>>
  /\ Commit("ok")

RemoveDeletedBegin ==
  /\ Idle
  /\ \E ids \in SUBSET Ids :
       Begin(Transaction("removeDeletedEventsFromCache", "scan", <<>>, 0, 0,
                           ids, NoId))

RemoveDeletedScan ==
  /\ tx.fn = "removeDeletedEventsFromCache"
  /\ PurgeScan

RemoveDeletedDelete ==
  /\ tx.fn = "removeDeletedEventsFromCache"
  /\ PurgeDelete

RemoveDeletedDone ==
  /\ tx.fn = "removeDeletedEventsFromCache"
  /\ PurgeDone


RemoveAllNotInListBegin ==
  /\ Idle
  /\ \E ids \in SUBSET Ids :
       Begin(Transaction("removeAllEventsNotInList", "scan", <<>>, 0, 0, ids,
                           NoId))

RemoveAllNotInListScan ==
  /\ tx.fn = "removeAllEventsNotInList"
  /\ PurgeScan

RemoveAllNotInListDelete ==
  /\ tx.fn = "removeAllEventsNotInList"
  /\ PurgeDelete

RemoveAllNotInListDone ==
  /\ tx.fn = "removeAllEventsNotInList"
  /\ PurgeDone


(***************************************************************************)
(* getCachedEvents(startDate, endDate)                                     *)
(***************************************************************************)
GetCachedBegin ==
  /\ Idle
  /\ \E r \in DateRanges :
       Begin(Transaction("getCachedEvents", "scan", <<>>, r[1], r[2], {}, NoId))

\* a scan that takes the records it returns out of the store
GetCachedScanTaking ==
  /\ tx.fn = "getCachedEvents"
  /\ tx.pc = "scan"
  /\ LET startKey == toISOString(tx.startDate)
         endKey == toISOString(tx.endDate)
         found == IndexCursor(tx.view, KeyRangeBound(startKey, endKey))
     IN tx' = [tx EXCEPT !.result = found, !.pc = "done",
                         !.view = tx.view \ Range(found)]
  /\ UNCHANGED <<db, store, waiting, last, lastWrite, page>>

GetCachedScan ==
  /\ tx.fn = "getCachedEvents"
  /\ tx.pc = "scan"
  /\ LET startKey == toISOString(tx.startDate)
         endKey == toISOString(tx.endDate)
     IN tx' = [tx EXCEPT
                 !.result = IndexCursor(tx.view,
                                        KeyRangeBound(startKey, endKey)),
                 !.pc = "done"]
  /\ UNCHANGED <<db, store, waiting, last, lastWrite, page>>

GetCachedDone ==
  /\ tx.fn = "getCachedEvents"
  /\ tx.pc = "done"
  /\ Commit("ok")

(***************************************************************************)
(* clearCache() and clearEventsCache(): database.clear('events')           *)
(***************************************************************************)
ClearBegin ==
  /\ Idle
  /\ \E fn \in {"clearCache", "clearEventsCache"} :
       Begin(Transaction(fn, "clear", <<>>, 0, 0, {}, NoId))

\* a clear of the other object store, 'cache', that leaves 'events' alone
ClearRequestOther ==
  /\ tx.fn \in {"clearCache", "clearEventsCache"}
  /\ tx.pc = "clear"
  /\ tx' = [tx EXCEPT !.pc = "done"]
  /\ UNCHANGED <<db, store, waiting, last, lastWrite, page>>

ClearRequest ==
  /\ tx.fn \in {"clearCache", "clearEventsCache"}
  /\ tx.pc = "clear"
  /\ tx' = [tx EXCEPT !.view = {}, !.pc = "done",
                      !.writes = [id \in Ids |-> Absent]]
  /\ UNCHANGED <<db, store, waiting, last, lastWrite, page>>

ClearDone ==
  /\ tx.fn \in {"clearCache", "clearEventsCache"}
  /\ tx.pc = "done"
  /\ Commit("ok")

\* the caller of the finished call resumes with its outcome
Return ==
  /\ last.fn # "none"
  /\ last' = NoCall
  /\ UNCHANGED <<db, store, tx, waiting, lastWrite, page>>

(***************************************************************************)
(* Calls made while the transaction of an earlier call is live.  Every     *)
(* function creates its transaction on the object store `events`, all but  *)
(* getCachedEvents in mode 'readwrite'.  IndexedDB starts a transaction    *)
(* when no live transaction created before it has an overlapping scope,    *)
(* unless both are 'readonly'; until then its requests wait.               *)
(***************************************************************************)
Mode(fn) == IF fn = "getCachedEvents" THEN "readonly" ELSE "readwrite"

Blocks(earlier, later) ==
  /\ earlier.fn # "none"
  /\ Mode(earlier.fn) = "readwrite" \/ Mode(later.fn) = "readwrite"

Summary(t) ==
  [fn |-> t.fn, events |-> t.events, startDate |-> t.startDate,
   endDate |-> t.endDate, ids |-> t.ids, eventId |-> t.eventId,
   outcome |-> "pending", pre |-> store, post |-> {}]

\* a second call is made while the first one's transaction is live; a third
\* one waits until both have finished
Busy ==
  /\ tx.fn # "none"
  /\ tx.over.fn = "none"
  /\ waiting = <<>>
  /\ last.fn = "none"

Behind(t) ==
  /\ waiting' = <<[t EXCEPT !.over = Summary(tx)]>>
  /\ UNCHANGED <<db, store, tx, last, lastWrite, page>>

\* the live transaction steps aside for the one that starts (both are
\* 'readonly'), and is resumed the same way
Aside == IF tx.fn = "none" THEN <<>> ELSE <<tx>>

\* a start that does not wait for the live transaction and reads the records
\* as its requests have left them so far
StartDirty ==
  /\ waiting # <<>>
  /\ last.fn = "none"
  /\ LET t == Head(waiting)
     IN tx' = [t EXCEPT !.started = TRUE,
                        !.view = IF t.started THEN t.view
                                 ELSE IF tx.fn = "none" THEN store
                                 ELSE tx.view]
  /\ waiting' = Aside \o Tail(waiting)
  /\ UNCHANGED <<db, store, last, lastWrite, page>>

\* a start that works on the records as they were when the call was made
StartStale ==
  /\ waiting # <<>>
  /\ last.fn = "none"
  /\ ~Blocks(tx, Head(waiting))
  /\ tx' = [Head(waiting) EXCEPT !.started = TRUE]
  /\ waiting' = Aside \o Tail(waiting)
  /\ UNCHANGED <<db, store, last, lastWrite, page>>

\* the waiting transaction starts: its requests are served on the store as
\* the transactions before it have left it
Start ==
  /\ waiting # <<>>
  /\ last.fn = "none"
  /\ ~Blocks(tx, Head(waiting))
  /\ LET t == Head(waiting)
     IN tx' = [t EXCEPT !.started = TRUE,
                        !.view = IF t.started THEN t.view ELSE store]
  /\ waiting' = Aside \o Tail(waiting)
  /\ UNCHANGED <<db, store, last, lastWrite, page>>

SyncBehind(U) ==
  /\ Busy
  /\ \E apiEvents \in Lists(U), r \in DateRanges :
       Behind(Transaction("syncCacheWithApiEvents", "scan", apiEvents, r[1],
                            r[2], {}, NoId))

RemoveDeletedBehind ==
  /\ Busy
  /\ \E ids \in SUBSET Ids :
       Behind(Transaction("removeDeletedEventsFromCache", "scan", <<>>, 0, 0,
                            ids, NoId))

RemoveAllNotInListBehind ==
  /\ Busy
  /\ \E ids \in SUBSET Ids :
       Behind(Transaction("removeAllEventsNotInList", "scan", <<>>, 0, 0, ids,
                            NoId))

GetCachedBehind ==
  /\ Busy
  /\ \E r \in DateRanges :
       Behind(Transaction("getCachedEvents", "scan", <<>>, r[1], r[2], {},
                            NoId))

(***************************************************************************)
(* CalendarPage (frontend/src/pages/CalendarPage.tsx): the consumer of the *)
(* cache.  `page` holds the component state, the events the server holds   *)
(* for the user, and the stack of the handlers that are running: the top   *)
(* frame is the code that runs, the frames below await it.  A step is the  *)
(* code between two awaits; a handler that awaits a cache function resumes *)
(* when the call has finished (`last`).  Handlers run one at a time.       *)
(***************************************************************************)
NoEvent == [none |-> TRUE]

Frame(fn, pc, start, end, eventId) ==
  [fn |-> fn, pc |-> pc, start |-> start, end |-> end, eventId |-> eventId,
   response |-> <<>>, wide |-> <<>>]

\* useState(...): the component as it is mounted
NoPage ==
  [server |-> {}, currentDate |-> <<0, 1>>, events |-> <<>>,
   upcomingEvents |-> <<>>, loading |-> TRUE, navigated |-> NoId,
   got |-> NoEvent, event |-> NoEvent, stack |-> <<>>, flights |-> <<>>,
   removed |-> {}]

Top == Head(page.stack)

Running(fn, pc) ==
  /\ page.stack # <<>>
  /\ Top.fn = fn
  /\ Top.pc = pc

Mounted == page.stack = <<>> /\ page.navigated = NoId /\ Idle

Goto(p, pc) == [p EXCEPT !.stack[1].pc = pc]
Push(p, frame) == [p EXCEPT !.stack = <<frame>> \o @]
Pop(p) == [p EXCEPT !.stack = Tail(@)]

\* the awaited cache call has finished, with this outcome
Resolved(fn) == last.fn = fn /\ last.outcome = "ok"
Rejected(fn) == last.fn = fn /\ last.outcome # "ok"

\* the handler goes on without calling the cache
Resume ==
  /\ last' = NoCall
  /\ UNCHANGED <<db, store, tx, waiting, lastWrite>>

RECURSIVE ByStart(_)
ByStart(S) ==
  IF S = {} THEN <<>>
  ELSE LET m == CHOOSE x \in S :
                  \A y \in S :
                    \/ x.start_time.inst < y.start_time.inst
                    \/ /\ x.start_time.inst = y.start_time.inst
                       /\ ~StoreLess(y, x)
       IN <<m>> \o ByStart(S \ {m})

\* GET /api/v1/events?start_date=..&end_date=..: the user's events that
\* start within the window
listEvents(server, start_date, end_date) ==
  ByStart({e \in server : InRange(e, start_date, end_date)})

\* another client of the user (the bot, the assistant page, another device)
\* creates, updates or deletes an event, between two handlers of the page
ServerChange(U) ==
  /\ Mounted
  /\ \/ \E e \in U : page' = [page EXCEPT !.server = Put(@, e)]
     \/ \E id \in Ids : /\ RecordsOf(page.server, id) # {}
                        /\ page' = [page EXCEPT !.server = Delete(@, id)]
  /\ UNCHANGED <<db, store, tx, waiting, last, lastWrite>>

\* loadEvents up to its first await: setLoading(true), setEvents([]), the
\* month-range listEvents is sent
loadEvents(p) ==
  Push([p EXCEPT !.loading = TRUE, !.events = <<>>, !.got = NoEvent],
       Frame("loadEvents", "list", p.currentDate[1], p.currentDate[2], NoId))

\* useEffect(() => { loadEvents() }, [currentDate]): on mount and after the
\* month buttons have set currentDate
CurrentDateEffect ==
  /\ Mounted
  /\ \E month \in DateRanges :
       page' = loadEvents([page EXCEPT !.currentDate = month])
  /\ UNCHANGED <<db, store, tx, waiting, last, lastWrite>>

\* listEvents resolves: setEvents(response.events), then
\* syncCacheWithApiEvents(response.events, start, end) is called
LoadEventsListed ==
  /\ Running("loadEvents", "list")
  /\ LET response == listEvents(page.server, Top.start, Top.end)
     IN /\ page' = Goto([page EXCEPT !.events = response,
                                     !.stack[1].response = response], "sync")
        /\ Call(Transaction("syncCacheWithApiEvents", "scan", response,
                            Top.start, Top.end, {}, NoId))

\* catch (error): getCachedEvents(start, end) is called
Fallback ==
  /\ page' = Goto(page, "cached")
  /\ Call(Transaction("getCachedEvents", "scan", <<>>, Top.start, Top.end,
                      {}, NoId))

\* listEvents rejects (network failure)
LoadEventsListFailed ==
  /\ Running("loadEvents", "list")
  /\ Fallback

\* syncCacheWithApiEvents resolves: the wide-range listEvents is sent
LoadEventsSynced ==
  /\ Running("loadEvents", "sync")
  /\ Resolved("syncCacheWithApiEvents")
  /\ page' = Goto(page, "wide")
  /\ Resume

LoadEventsSyncFailed ==
  /\ Running("loadEvents", "sync")
  /\ Rejected("syncCacheWithApiEvents")
  /\ Fallback

\* the wide-range listEvents (currentDate - 1 year .. + 1 year) resolves:
\* removeAllEventsNotInList(ids of the response) is called
LoadEventsWideListed ==
  /\ Running("loadEvents", "wide")
  /\ LET wideResponse == listEvents(page.server, 0, MaxInst)
     IN /\ page' = Goto([page EXCEPT !.stack[1].wide = wideResponse],
                        "purge")
        /\ Call(Transaction("removeAllEventsNotInList", "scan", <<>>, 0, 0,
                            ListIds(wideResponse), NoId))

\* finally: setLoading(false), and loadEvents returns
LoadEventsReturn == Pop([page EXCEPT !.loading = FALSE])

\* the wide-range listEvents rejects: catch (wideError), finally
LoadEventsWideFailed ==
  /\ Running("loadEvents", "wide")
  /\ page' = LoadEventsReturn
  /\ UNCHANGED <<db, store, tx, waiting, last, lastWrite>>

\* removeAllEventsNotInList resolves or rejects (catch (wideError)), finally
LoadEventsPurged ==
  /\ Running("loadEvents", "purge")
  /\ last.fn = "removeAllEventsNotInList"
  /\ page' = LoadEventsReturn
  /\ Resume

\* getCachedEvents resolves (setEvents(cached) if any) or rejects, finally
LoadEventsCached ==
  /\ Running("loadEvents", "cached")
  /\ last.fn = "getCachedEvents"
  /\ page' = [LoadEventsReturn EXCEPT
                !.events = IF last.outcome = "ok" /\ Len(last.result) > 0
                           THEN last.result ELSE @]
  /\ Resume

\* loadUpcomingEvents up to its first await: listEvents from the start of
\* today to three months ahead is sent
loadUpcomingEvents(p, todayStart, futureDate) ==
  Push([p EXCEPT !.got = NoEvent],
       Frame("loadUpcomingEvents", "list", todayStart, futureDate, NoId))

\* setInterval(() => { loadUpcomingEvents() }, 60000)
IntervalTick ==
  /\ Mounted
  /\ \E r \in DateRanges : page' = loadUpcomingEvents(page, r[1], r[2])
  /\ UNCHANGED <<db, store, tx, waiting, last, lastWrite>>

LoadUpcomingListed ==
  /\ Running("loadUpcomingEvents", "list")
  /\ LET response == listEvents(page.server, Top.start, Top.end)
     IN /\ page' = Goto([page EXCEPT !.stack[1].response = response], "sync")
        /\ Call(Transaction("syncCacheWithApiEvents", "scan", response,
                            Top.start, Top.end, {}, NoId))

\* an await of loadUpcomingEvents rejects: catch (error), return
LoadUpcomingListFailed ==
  /\ Running("loadUpcomingEvents", "list") \/ Running("loadUpcomingEvents", "wide")
  /\ page' = Pop(page)
  /\ UNCHANGED <<db, store, tx, waiting, last, lastWrite>>

LoadUpcomingSynced ==
  /\ Running("loadUpcomingEvents", "sync")
  /\ Resolved("syncCacheWithApiEvents")
  /\ page' = Goto(page, "wide")
  /\ Resume

LoadUpcomingCacheFailed ==
  /\ \/ Running("loadUpcomingEvents", "sync")
        /\ Rejected("syncCacheWithApiEvents")
     \/ Running("loadUpcomingEvents", "purge")
        /\ Rejected("removeDeletedEventsFromCache")
  /\ page' = Pop(page)
  /\ Resume

\* listEvents from 1 January of last year to futureDate resolves:
\* removeDeletedEventsFromCache(ids of the response) is called
LoadUpcomingWideListed ==
  /\ Running("loadUpcomingEvents", "wide")
  /\ LET allEventsResponse == listEvents(page.server, 0, Top.end)
     IN /\ page' = Goto([page EXCEPT !.stack[1].wide = allEventsResponse],
                        "purge")
        /\ Call(Transaction("removeDeletedEventsFromCache", "scan", <<>>, 0,
                            0, ListIds(allEventsResponse), NoId))

\* removeDeletedEventsFromCache resolves: the events of the response that
\* have not ended (none has at the start of today), by start time
LoadUpcomingPurged ==
  /\ Running("loadUpcomingEvents", "purge")
  /\ Resolved("removeDeletedEventsFromCache")
  /\ page' = Pop([page EXCEPT !.upcomingEvents = Top.response])
  /\ Resume

\* handleEventClick(event) on an event the page shows: getEvent is sent
HandleEventClick ==
  /\ Mounted
  /\ \E event \in Range(page.events) \cup Range(page.upcomingEvents) :
       page' = Push([page EXCEPT !.got = NoEvent],
                    Frame("handleEventClick", "get", 0, 0, event.id))
  /\ UNCHANGED <<db, store, tx, waiting, last, lastWrite>>

\* getEvent resolves: navigate to the event
GetEventResolved ==
  /\ Running("handleEventClick", "get")
  /\ \E event \in RecordsOf(page.server, Top.eventId) :
       page' = Pop([page EXCEPT !.got = event, !.navigated = Top.eventId])
  /\ UNCHANGED <<db, store, tx, waiting, last, lastWrite>>

\* getEvent rejects with 404: removeEventFromCache(event.id) is called
GetEventNotFound ==
  /\ Running("handleEventClick", "get")
  /\ RecordsOf(page.server, Top.eventId) = {}
  /\ page' = Goto(page, "remove")
  /\ Call(Transaction("removeEventFromCache", "delete", <<>>, 0, 0, {},
                      Top.eventId))

\* getEvent rejects with another error and the handler gives up
GetEventFailedStay ==
  /\ Running("handleEventClick", "get")
  /\ page' = Pop(page)
  /\ UNCHANGED <<db, store, tx, waiting, last, lastWrite>>

\* getEvent rejects with another error: navigate all the same
GetEventFailed ==
  /\ Running("handleEventClick", "get")
  /\ page' = Pop([page EXCEPT !.navigated = Top.eventId])
  /\ UNCHANGED <<db, store, tx, waiting, last, lastWrite>>

\* removeEventFromCache resolves: await loadEvents()
EventClickRemoved ==
  /\ Running("handleEventClick", "remove")
  /\ Resolved("removeEventFromCache")
  /\ page' = loadEvents(Goto(page, "loadEvents"))
  /\ Resume

\* removeEventFromCache rejects inside the catch block: the handler rejects
EventClickRemoveFailed ==
  /\ Running("handleEventClick", "remove")
  /\ Rejected("removeEventFromCache")
  /\ page' = Pop(page)
  /\ Resume

\* loadEvents has returned: await loadUpcomingEvents()
EventClickLoaded ==
  /\ Running("handleEventClick", "loadEvents")
  /\ \E r \in DateRanges :
       page' = loadUpcomingEvents(Goto(page, "loadUpcomingEvents"), r[1],
                                  r[2])
  /\ UNCHANGED <<db, store, tx, waiting, last, lastWrite>>

\* loadUpcomingEvents has returned: alert('This event has been deleted.')
EventClickAlert ==
  /\ Running("handleEventClick", "loadUpcomingEvents")
  /\ page' = Pop(page)
  /\ UNCHANGED <<db, store, tx, waiting, last, lastWrite>>

(***************************************************************************)
(* CalendarPage.handleSaveEvent(eventData).  selectedEvent is only ever    *)
(* set to null, so the editor of this page creates events.                 *)
(***************************************************************************)
\* handleSaveEvent up to its first await: createEvent is sent
HandleSaveEvent ==
  /\ Mounted
  /\ page' = Push(page, Frame("handleSaveEvent", "create", 0, 0, NoId))
  /\ UNCHANGED <<db, store, tx, waiting, last, lastWrite>>

\* createEvent resolves with the event the server has stored under a new
\* id: the editor is closed, await loadEvents()
SaveEventResolved(U) ==
  /\ Running("handleSaveEvent", "create")
  /\ \E e \in U :
       /\ RecordsOf(page.server, e.id) = {}
       /\ page' = loadEvents([page EXCEPT !.server = Put(@, e),
                                          !.stack[1].eventId = e.id,
                                          !.stack[1].response = <<e>>,
                                          !.stack[1].pc = "loadEvents"])
  /\ UNCHANGED <<db, store, tx, waiting, last, lastWrite>>

\* createEvent rejects: throw error
SaveEventFailed ==
  /\ Running("handleSaveEvent", "create")
  /\ page' = Pop(page)
  /\ UNCHANGED <<db, store, tx, waiting, last, lastWrite>>

\* loadEvents has returned: await loadUpcomingEvents()
SaveEventLoaded ==
  /\ Running("handleSaveEvent", "loadEvents")
  /\ \E r \in DateRanges :
       page' = loadUpcomingEvents(Goto(page, "loadUpcomingEvents"), r[1],
                                  r[2])
  /\ UNCHANGED <<db, store, tx, waiting, last, lastWrite>>

\* loadUpcomingEvents has returned: the handler returns
SaveEventDone ==
  /\ Running("handleSaveEvent", "loadUpcomingEvents")
  /\ page' = Pop(page)
  /\ UNCHANGED <<db, store, tx, waiting, last, lastWrite>>

(***************************************************************************)
(* CalendarPage.handleDeleteEvent(eventId)                                 *)
(***************************************************************************)
\* handleDeleteEvent up to its first await: deleteEvent is sent
HandleDeleteEvent ==
  /\ Mounted
  /\ \E eventId \in Ids :
       page' = Push(page, Frame("handleDeleteEvent", "delete", 0, 0, eventId))
  /\ UNCHANGED <<db, store, tx, waiting, last, lastWrite>>

\* deleteEvent resolves and the call that follows is another one:
\* removeDeletedEventsFromCache with no valid id
DeleteEventResolvedPurging ==
  /\ Running("handleDeleteEvent", "delete")
  /\ RecordsOf(page.server, Top.eventId) # {}
  /\ page' = Goto([page EXCEPT !.server = Delete(@, Top.eventId)], "remove")
  /\ Call(Transaction("removeDeletedEventsFromCache", "scan", <<>>, 0, 0,
                      {}, NoId))

\* deleteEvent resolves: removeEventFromCache(eventId) is called
DeleteEventResolved ==
  /\ Running("handleDeleteEvent", "delete")
  /\ RecordsOf(page.server, Top.eventId) # {}
  /\ page' = Goto([page EXCEPT !.server = Delete(@, Top.eventId)], "remove")
  /\ Call(Transaction("removeEventFromCache", "delete", <<>>, 0, 0, {},
                      Top.eventId))

\* deleteEvent rejects (404, network failure): throw error
DeleteEventFailed ==
  /\ Running("handleDeleteEvent", "delete")
  /\ page' = Pop(page)
  /\ UNCHANGED <<db, store, tx, waiting, last, lastWrite>>

\* prevEvents.filter(e => e.id !== eventId)
WithoutId(events, eventId) == SelectSeq(events, LAMBDA e : e.id # eventId)

\* removeEventFromCache resolves: the event is taken out of events and
\* upcomingEvents, await loadEvents()
DeleteEventRemoved ==
  /\ Running("handleDeleteEvent", "remove")
  /\ Resolved("removeEventFromCache")
  /\ page' = loadEvents(
       [page EXCEPT !.events = WithoutId(@, Top.eventId),
                    !.upcomingEvents = WithoutId(@, Top.eventId),
                    !.stack[1].pc = "loadEvents"])
  /\ Resume

\* removeEventFromCache rejects: throw error
DeleteEventRemoveFailed ==
  /\ Running("handleDeleteEvent", "remove")
  /\ Rejected("removeEventFromCache")
  /\ page' = Pop(page)
  /\ Resume

\* loadEvents has returned: await loadUpcomingEvents()
DeleteEventLoaded ==
  /\ Running("handleDeleteEvent", "loadEvents")
  /\ \E r \in DateRanges :
       page' = loadUpcomingEvents(Goto(page, "loadUpcomingEvents"), r[1],
                                  r[2])
  /\ UNCHANGED <<db, store, tx, waiting, last, lastWrite>>

\* loadUpcomingEvents has returned: the editor is closed
DeleteEventDone ==
  /\ Running("handleDeleteEvent", "loadUpcomingEvents")
  /\ page' = Pop(page)
  /\ UNCHANGED <<db, store, tx, waiting, last, lastWrite>>

(***************************************************************************)
(* EventDetailPage (frontend/src/pages/EventDetailPage.tsx), the route     *)
(* /event/:id that handleEventClick navigates to.  `page.event` is its     *)
(* state `event`.                                                          *)
(***************************************************************************)
Detail == page.navigated # NoId /\ page.stack = <<>> /\ Idle

\* loadEvent: getEvent(id) resolves, setEvent(eventData)
LoadEvent ==
  /\ Detail
  /\ page.event = NoEvent
  /\ \E eventData \in RecordsOf(page.server, page.navigated) :
       page' = [page EXCEPT !.event = eventData]
  /\ UNCHANGED <<db, store, tx, waiting, last, lastWrite>>

\* handleSave: updateEvent(event.id, eventData) resolves, setEvent(updated)
HandleSave(U) ==
  /\ Detail
  /\ page.event # NoEvent
  /\ RecordsOf(page.server, page.event.id) # {}
  /\ \E updated \in U :
       /\ updated.id = page.event.id
       /\ page' = [page EXCEPT !.server = Put(@, updated),
                               !.event = updated]
  /\ UNCHANGED <<db, store, tx, waiting, last, lastWrite>>

\* handleDelete: deleteEvent(event.id) resolves, removeEventFromCache is
\* called
HandleDelete ==
  /\ Detail
  /\ page.event # NoEvent
  /\ RecordsOf(page.server, page.event.id) # {}
  /\ page' = Push([page EXCEPT !.server = Delete(@, page.event.id)],
                  Frame("handleDelete", "remove", 0, 0, page.event.id))
  /\ Call(Transaction("removeEventFromCache", "delete", <<>>, 0, 0, {},
                      page.event.id))

\* navigate('/'): CalendarPage is mounted anew
Home == [NoPage EXCEPT !.server = page.server]

\* removeEventFromCache resolves: navigate('/')
HandleDeleteRemoved ==
  /\ Running("handleDelete", "remove")
  /\ Resolved("removeEventFromCache")
  /\ page' = Home
  /\ Resume

\* removeEventFromCache rejects: throw error, the page stays
HandleDeleteRemoveFailed ==
  /\ Running("handleDelete", "remove")
  /\ Rejected("removeEventFromCache")
  /\ page' = Pop(page)
  /\ Resume

\* the Back button: navigate('/')
Back ==
  /\ Detail
  /\ page' = Home
  /\ UNCHANGED <<db, store, tx, waiting, last, lastWrite>>

(***************************************************************************)
(* Overlapping handler calls of CalendarPage.  The effects call            *)
(* loadEvents() and loadUpcomingEvents() without awaiting them, so a call  *)
(* can start while others are in flight: `page.flights` holds the calls in *)
(* flight.  A response of the API is produced by the server in one step    *)
(* and received by the page in a later one.  A cache function is taken     *)
(* where IndexedDB fixes its place in the order of the transactions, at    *)
(* database.transaction(...) right after initCache() has returned; no      *)
(* storage fault occurs here.  initCache() itself awaits openDB while the  *)
(* module's db is still null.  `page.removed` records the ids that         *)
(* handleDeleteEvent has deleted on the server and removed from the cache. *)
(***************************************************************************)
\* the handles openDB resolves with, by invocation
Handles == <<"open", "open2", "open3">>

Flight(fn, caller, pc, start, end, eventId) ==
  [fn |-> fn, caller |-> caller, pc |-> pc, start |-> start, end |-> end,
   eventId |-> eventId, response |-> <<>>, wide |-> <<>>, handle |-> "null",
   opening |-> FALSE]

Flights == 1 .. Len(page.flights)

\* today .. today + 3 months
UpcomingWindow == <<0, MaxInst>>

Room(n) == Len(page.flights) + n <= MaxFlights

Launch(p, flight) == [p EXCEPT !.flights = Append(@, flight)]

Land(p, i) ==
  [p EXCEPT !.flights = SubSeq(@, 1, i - 1) \o SubSeq(@, i + 1, Len(@))]

\* loadEvents() up to its first await, called with the currentDate of p
loadEventsFlight(p, caller) ==
  Flight("loadEvents", caller, "list", p.currentDate[1], p.currentDate[2],
         NoId)

loadUpcomingEventsFlight(caller) ==
  Flight("loadUpcomingEvents", caller, "list", UpcomingWindow[1],
         UpcomingWindow[2], NoId)

\* the function of flight i returns to its caller
Finish(p, i) ==
  LET f == p.flights[i]
  IN IF f.caller = "handleDeleteEvent" /\ f.fn = "loadEvents"
     THEN [p EXCEPT !.flights[i] = loadUpcomingEventsFlight(f.caller)]
     ELSE Land(p, i)

\* what the transaction of the cache function called at f.pc makes of the
\* store
Transact(f, view) ==
  CASE f.pc = "sync" -> FullyUpdated(view, f.response, f.start, f.end)
    [] f.pc = "purge" -> {r \in view : r.id \in ListIds(f.wide)}
    [] f.pc = "remove" -> Delete(view, f.eventId)
    [] f.pc = "cached" -> view

\* the code of flight i after the cache function called at its pc, made on
\* the store `view`, has resolved, up to the next await
After(p, i, view) ==
  LET f == p.flights[i]
      cached == QueryOn(view, f.start, f.end)
  IN CASE f.pc = "sync" -> [p EXCEPT !.flights[i].pc = "wide"]
       [] f.fn = "loadEvents" /\ f.pc = "purge" ->
            Finish([p EXCEPT !.loading = FALSE], i)
       [] f.fn = "loadEvents" /\ f.pc = "cached" ->
            Finish([p EXCEPT !.loading = FALSE,
                             !.events = IF Len(cached) > 0 THEN cached
                                        ELSE @], i)
       [] f.fn = "loadUpcomingEvents" /\ f.pc = "purge" ->
            Finish([p EXCEPT !.upcomingEvents = f.response], i)
       [] f.fn = "handleDeleteEvent" /\ f.pc = "remove" ->
            LET q == [p EXCEPT !.removed = @ \cup {f.eventId},
                               !.events = <<>>,
                               !.upcomingEvents = WithoutId(@, f.eventId),
                               !.loading = TRUE]
            IN [q EXCEPT !.flights[i] = loadEventsFlight(q, f.fn)]

\* openDB invocations that have not resolved
Opening == {i \in Flights : page.flights[i].opening}

\* flight i calls the cache function of `site`: const database = await
\* initCache().  With db set the handle is db and the transaction follows;
\* with db null openDB is invoked and the call waits for it.
CacheCall(p, i, site) ==
  IF db = "null"
  THEN /\ page' = [p EXCEPT !.flights[i].pc = site,
                            !.flights[i].opening = TRUE,
                            !.flights[i].handle =
                              Handles[Cardinality(Opening) + 1]]
       /\ UNCHANGED <<db, store, tx, waiting, last, lastWrite>>
  ELSE LET f == [p.flights[i] EXCEPT !.pc = site, !.handle = db]
       IN /\ store' = Transact(f, store)
          /\ page' = After([p EXCEPT !.flights[i] = f], i, store)
          /\ UNCHANGED <<db, tx, waiting, last, lastWrite>>

\* openDB resolves for flight i: db = await openDB(...); return db, and the
\* cache function goes on to its transaction
OpenResolved ==
  \E i \in Opening :
    LET f == [page.flights[i] EXCEPT !.opening = FALSE]
    IN /\ db' = f.handle
       /\ store' = Transact(f, store)
       /\ page' = After([page EXCEPT !.flights[i] = f], i, store)
       /\ UNCHANGED <<tx, waiting, last, lastWrite>>

Quiet == UNCHANGED <<db, store, tx, waiting, last, lastWrite>>

\* another client of the user creates an event; the server never issues
\* the id of a deleted event again
OtherClient(U) ==
  /\ page.flights = <<>>
  /\ \E e \in U :
       /\ e.id \notin page.removed
       /\ RecordsOf(page.server, e.id) = {}
       /\ page' = [page EXCEPT !.server = Put(@, e)]
  /\ Quiet

\* the month buttons: setCurrentDate, and the effect on [currentDate]
\* calls loadEvents()
MonthChange ==
  /\ Room(1)
  /\ \E month \in DateRanges :
       LET p == [page EXCEPT !.currentDate = month, !.loading = TRUE,
                             !.events = <<>>]
       IN page' = Launch(p, loadEventsFlight(p, "none"))
  /\ Quiet

\* mount, focus, visibilitychange: loadEvents() and loadUpcomingEvents()
\* are both called, neither awaited
Focus ==
  /\ Room(2)
  /\ LET p == [page EXCEPT !.loading = TRUE, !.events = <<>>]
     IN page' = Launch(Launch(p, loadEventsFlight(p, "none")),
                       loadUpcomingEventsFlight("none"))
  /\ Quiet

\* handleDeleteEvent(eventId) up to its first await: deleteEvent is sent
DeleteClick ==
  /\ Room(1)
  /\ \E eventId \in Ids \ page.removed :
       page' = Launch(page, Flight("handleDeleteEvent", "none", "delete", 0,
                                   0, eventId))
  /\ Quiet

\* the server answers the listEvents a flight is waiting for
ListServed ==
  \E i \in Flights :
    LET f == page.flights[i]
    IN /\ f.pc = "list"
       /\ page' = [page EXCEPT
                     !.flights[i].response =
                       listEvents(page.server, f.start, f.end),
                     !.flights[i].pc = "listed"]
       /\ Quiet

\* the page receives the response of the month-range listEvents:
\* setEvents(response.events), syncCacheWithApiEvents is called
LoadEventsReceived ==
  \E i \in Flights :
    LET f == page.flights[i]
    IN /\ f.fn = "loadEvents"
       /\ f.pc = "listed"
       /\ CacheCall([page EXCEPT !.events = f.response], i, "sync")

\* the month-range listEvents rejects: getCachedEvents is called
LoadEventsRejected ==
  \E i \in Flights :
    LET f == page.flights[i]
    IN /\ f.fn = "loadEvents"
       /\ f.pc = "list"
       /\ CacheCall(page, i, "cached")

\* the page receives the response of loadUpcomingEvents' listEvents
LoadUpcomingReceived ==
  \E i \in Flights :
    LET f == page.flights[i]
    IN /\ f.fn = "loadUpcomingEvents"
       /\ f.pc = "listed"
       /\ CacheCall(page, i, "sync")

\* the server answers the wide-window listEvents of a flight
WideServed ==
  \E i \in Flights :
    LET f == page.flights[i]
    IN /\ f.pc = "wide"
       /\ page' = [page EXCEPT
                     !.flights[i].wide =
                       listEvents(page.server, 0,
                                  IF f.fn = "loadEvents" THEN MaxInst
                                  ELSE f.end),
                     !.flights[i].pc = "wided"]
       /\ Quiet

\* the page receives the wide-window response: removeAllEventsNotInList or
\* removeDeletedEventsFromCache is called with its ids
WideReceived ==
  \E i \in Flights :
    /\ page.flights[i].pc = "wided"
    /\ CacheCall(page, i, "purge")

\* the server deletes the event
DeleteServed ==
  \E i \in Flights :
    LET f == page.flights[i]
    IN /\ f.pc = "delete"
       /\ RecordsOf(page.server, f.eventId) # {}
       /\ page' = [page EXCEPT !.server = Delete(@, f.eventId),
                               !.flights[i].pc = "deleted"]
       /\ Quiet

\* deleteEvent rejects (404): throw error
DeleteRejected ==
  \E i \in Flights :
    LET f == page.flights[i]
    IN /\ f.pc = "delete"
       /\ RecordsOf(page.server, f.eventId) = {}
       /\ page' = Land(page, i)
       /\ Quiet

\* the page receives the answer of deleteEvent: removeEventFromCache is
\* called
DeleteReceived ==
  \E i \in Flights :
    /\ page.flights[i].pc = "deleted"
    /\ CacheCall(page, i, "remove")

(***************************************************************************)
(* Specifications.                                                         *)
(***************************************************************************)
\* Events as the callers hand them in.  The documented API answers with
\* "Z" timestamps without milliseconds; an event may also lack its id or its
\* start_time (nothing checks the JSON the API returns against Event).
Times(fmts) == {Stamp(i, f) : i \in Instants, f \in fmts}
Events ==
  [id : Ids, start_time : Times({"Z"}) \cup {Missing}]
    \cup {[id |-> NoId, start_time |-> Stamp(1, "Z")]}

\* Well-formed events in the other representations: toISOString form, no
\* zone marker, numeric offset (CalendarPage.loadUpcomingEvents normalises
\* the last two by hand before it compares).
EventsFmt == [id : Ids, start_time : Times({"ms", "naive", "plus2"})]

\* Well-formed events whose timestamps are all in the toISOString form of
\* the range keys: the representation the range scans are correct for.
EventsIso == [id : Ids, start_time : Times({"ms"})]

Init ==
  /\ db = "null"
  /\ store = {}
  /\ tx = NoTx
  /\ waiting = <<>>
  /\ last = NoCall
  /\ lastWrite = [id \in Ids |-> Absent]
  /\ page = NoPage

Step(U) ==
  \/ CacheEventsBegin(U)
  \/ CacheEventsPut
  \/ CacheEventsDone
  \/ RemoveEventBegin
  \/ RemoveEventDelete
  \/ RemoveEventDone
  \/ SyncBegin(U)
  \/ SyncScan
  \/ SyncDelete
  \/ SyncPut
  \/ SyncDone
  \/ RemoveDeletedBegin
  \/ RemoveDeletedScan
  \/ RemoveDeletedDelete
  \/ RemoveDeletedDone
  \/ RemoveAllNotInListBegin
  \/ RemoveAllNotInListScan
  \/ RemoveAllNotInListDelete
  \/ RemoveAllNotInListDone
  \/ GetCachedBegin
  \/ GetCachedScan
  \/ GetCachedDone
  \/ ClearBegin
  \/ ClearRequest
  \/ ClearDone
  \/ TxAbort
  \/ Return

Next == Step(Events)

Spec == Init /\ [][Next]_vars

NextFmt == Step(EventsFmt)

SpecFmt == Init /\ [][NextFmt]_vars

NextIso == Step(EventsIso)

SpecIso == Init /\ [][NextIso]_vars

\* CalendarPage over the cache and the server.
EventsPage == [id : Ids, start_time : {Stamp(0, "Z"), Stamp(MaxInst, "Z")}]

NextPage ==
  \/ ServerChange(EventsPage)
  \/ CurrentDateEffect
  \/ LoadEventsListed
  \/ LoadEventsListFailed
  \/ LoadEventsSynced
  \/ LoadEventsSyncFailed
  \/ LoadEventsWideListed
  \/ LoadEventsWideFailed
  \/ LoadEventsPurged
  \/ LoadEventsCached
  \/ IntervalTick
  \/ LoadUpcomingListed
  \/ LoadUpcomingListFailed
  \/ LoadUpcomingSynced
  \/ LoadUpcomingCacheFailed
  \/ LoadUpcomingWideListed
  \/ LoadUpcomingPurged
  \/ HandleEventClick
  \/ GetEventResolved
  \/ GetEventNotFound
  \/ GetEventFailed
  \/ EventClickRemoved
  \/ EventClickRemoveFailed
  \/ EventClickLoaded
  \/ EventClickAlert
  \/ RemoveEventDelete
  \/ RemoveEventDone
  \/ SyncScan
  \/ SyncDelete
  \/ SyncPut
  \/ SyncDone
  \/ RemoveDeletedScan
  \/ RemoveDeletedDelete
  \/ RemoveDeletedDone
  \/ RemoveAllNotInListScan
  \/ RemoveAllNotInListDelete
  \/ RemoveAllNotInListDone
  \/ GetCachedScan
  \/ GetCachedDone
  \/ TxAbort

SpecPage == Init /\ [][NextPage]_vars

\* The handlers that change the server's events: handleSaveEvent and
\* handleDeleteEvent of CalendarPage, handleSave and handleDelete of
\* EventDetailPage, with the reloads they make.
NextEdit ==
  \/ CurrentDateEffect
  \/ LoadEventsListed
  \/ LoadEventsListFailed
  \/ LoadEventsSynced
  \/ LoadEventsSyncFailed
  \/ LoadEventsWideListed
  \/ LoadEventsWideFailed
  \/ LoadEventsPurged
  \/ LoadEventsCached
  \/ LoadUpcomingListed
  \/ LoadUpcomingListFailed
  \/ LoadUpcomingSynced
  \/ LoadUpcomingCacheFailed
  \/ LoadUpcomingWideListed
  \/ LoadUpcomingPurged
  \/ HandleEventClick
  \/ GetEventResolved
  \/ HandleSaveEvent
  \/ SaveEventResolved(EventsPage)
  \/ SaveEventFailed
  \/ SaveEventLoaded
  \/ SaveEventDone
  \/ HandleDeleteEvent
  \/ DeleteEventResolved
  \/ DeleteEventFailed
  \/ DeleteEventRemoved
  \/ DeleteEventRemoveFailed
  \/ DeleteEventLoaded
  \/ DeleteEventDone
  \/ LoadEvent
  \/ HandleSave(EventsPage)
  \/ HandleDelete
  \/ HandleDeleteRemoved
  \/ HandleDeleteRemoveFailed
  \/ Back
  \/ RemoveEventDelete
  \/ RemoveEventDone
  \/ SyncScan
  \/ SyncDelete
  \/ SyncPut
  \/ SyncDone
  \/ RemoveDeletedScan
  \/ RemoveDeletedDelete
  \/ RemoveDeletedDone
  \/ RemoveAllNotInListScan
  \/ RemoveAllNotInListDelete
  \/ RemoveAllNotInListDone
  \/ GetCachedScan
  \/ GetCachedDone
  \/ TxAbort

SpecEdit == Init /\ [][NextEdit]_vars

\* Handler calls that overlap.
NextOverlap ==
  \/ OtherClient(EventsPage)
  \/ MonthChange
  \/ Focus
  \/ DeleteClick
  \/ ListServed
  \/ LoadEventsReceived
  \/ LoadEventsRejected
  \/ LoadUpcomingReceived
  \/ WideServed
  \/ WideReceived
  \/ DeleteServed
  \/ DeleteRejected
  \/ DeleteReceived
  \/ OpenResolved

SpecOverlap == Init /\ [][NextOverlap]_vars

\* Events with a descriptive field next to the two the cache reads.
Titles == {"Lunch", "Dinner"}
EventsPayload == [id : Ids, start_time : Times({"Z"}), title : Titles]

NextPayload == Step(EventsPayload)

SpecPayload == Init /\ [][NextPayload]_vars

\* Calls that overlap: a second call is made while the first one's
\* transaction is live.
EventsRace == [id : Ids, start_time : {Stamp(1, "Z")}]

NextRace ==
  \/ Step(EventsRace)
  \/ SyncBehind(EventsRace)
  \/ RemoveDeletedBehind
  \/ RemoveAllNotInListBehind
  \/ GetCachedBehind
  \/ Start

SpecRace == Init /\ [][NextRace]_vars

(***************************************************************************)
(* Vocabulary of the properties.                                           *)
(***************************************************************************)
\* the event a list writes last for an id
LastFor(events, id) ==
  events[CHOOSE k \in 1 .. Len(events) :
           /\ events[k].id = id
           /\ \A j \in (k + 1) .. Len(events) : events[j].id # id]

DistinctIds(events) ==
  /\ \A k \in 1 .. Len(events) : HasKey(events[k])
  /\ \A j, k \in 1 .. Len(events) : j # k => events[j].id # events[k].id

Reorderings(events) ==
  {[k \in 1 .. Len(events) |-> events[p[k]]] :
     p \in {q \in [1 .. Len(events) -> 1 .. Len(events)] :
              \A j, k \in 1 .. Len(events) : j # k => q[j] # q[k]}}

SyncReturned ==
  last.fn = "syncCacheWithApiEvents" /\ last.outcome = "ok"

\* the authoritative list is what a listing of the range can be: well-formed
\* events, one per id, each starting within the range
ListOfRange ==
  /\ DistinctIds(last.events)
  /\ \A k \in 1 .. Len(last.events) :
       InRange(last.events[k], last.startDate, last.endDate)

(***************************************************************************)
(* C1: after syncCacheWithApiEvents(apiEvents, startDate, endDate) has     *)
(* completed, the cached events whose start_time lies in                   *)
(* [startDate, endDate] are exactly apiEvents.  Stated for the lists the   *)
(* claim is meant for (ListOfRange); it fails already there.               *)
(***************************************************************************)
C1_RangeMatchesApi ==
  (SyncReturned /\ ListOfRange) =>
    {r \in store : InRange(r, last.startDate, last.endDate)}
      = Range(last.events)

(***************************************************************************)
(* C2: no stale entry survives: a record cached with start_time inside the *)
(* range whose id is not among the ids of apiEvents is absent after the    *)
(* call has returned.                                                      *)
(***************************************************************************)
C2_NoStaleSurvives ==
  SyncReturned =>
    \A r \in last.pre :
      (/\ InRange(r, last.startDate, last.endDate)
       /\ r.id \notin ListIds(last.events)) => r \notin store

(***************************************************************************)
(* C3: a cached record whose start_time is outside the range and whose id  *)
(* is not in apiEvents is still there, unchanged, after the call (however  *)
(* the call ended).                                                        *)
(***************************************************************************)
C3_OutsideUnlistedKept ==
  (last.fn = "syncCacheWithApiEvents") =>
    \A r \in last.pre :
      (/\ ~InRange(r, last.startDate, last.endDate)
       /\ r.id \notin ListIds(last.events)) => r \in store

(***************************************************************************)
(* C4 as claimed: the records outside the range are the same before and    *)
(* after the call, also when apiEvents holds events outside the range.     *)
(***************************************************************************)
C4_OutsideUntouched ==
  SyncReturned =>
    {r \in store : ~InRange(r, last.startDate, last.endDate)}
      = {r \in last.pre : ~InRange(r, last.startDate, last.endDate)}

(***************************************************************************)
(* C4 as amended: an event of apiEvents is upserted whatever its           *)
(* start_time: after the call has completed the cache holds, for each      *)
(* listed id, exactly the event listed last for it, also when that event   *)
(* lies outside the range; a record whose id is in apiEvents is never      *)
(* deleted, it is overwritten.                                             *)
(***************************************************************************)
C4_ListedUpserted ==
  SyncReturned =>
    \A id \in ListIds(last.events) :
      RecordsOf(store, id) = {LastFor(last.events, id)}

\* a listed event outside the range has replaced the cached record of its id
C4_Witness ==
  /\ SyncReturned
  /\ \E k \in 1 .. Len(last.events), r \in last.pre :
       /\ ~InRange(last.events[k], last.startDate, last.endDate)
       /\ r.id = last.events[k].id
       /\ r # last.events[k]
       /\ last.events[k] \in store
       /\ r \notin store

(***************************************************************************)
(* C5: in every state there is at most one record per event id, and it     *)
(* carries the field values of the last write applied for that id (put or  *)
(* delete of a committed transaction).                                     *)
(***************************************************************************)
C5_OneRecordLastWrite ==
  /\ \A r \in store : r.id \in Ids
  /\ \A id \in Ids :
       /\ Cardinality(RecordsOf(store, id)) <= 1
       /\ RecordsOf(store, id)
            = IF lastWrite[id] = Absent THEN {} ELSE {lastWrite[id]}

C5_Witness ==
  /\ last.fn \in {"cacheEvents", "syncCacheWithApiEvents"}
  /\ last.outcome = "ok"
  /\ Len(last.events) = 2
  /\ last.events[1].id = last.events[2].id
  /\ last.events[1] # last.events[2]
  /\ \E r \in last.pre :
       r.id = last.events[2].id /\ r \notin Range(last.events)
  /\ RecordsOf(store, last.events[2].id) = {last.events[2]}

(***************************************************************************)
(* C6: cacheEvents is idempotent and order-insensitive for lists with      *)
(* distinct ids: applying the list again, in any order, to the state it    *)
(* produced changes nothing; applying it in any order to the state before  *)
(* gives the same state; each id of the list has exactly one record, the   *)
(* listed one.                                                             *)
(***************************************************************************)
C6_IdempotentUpsert ==
  (/\ last.fn = "cacheEvents"
   /\ last.outcome = "ok"
   /\ DistinctIds(last.events)) =>
    /\ \A again \in Reorderings(last.events) :
         /\ PutAll(store, again) = store
         /\ PutAll(last.pre, again) = store
    /\ (Range(last.events) \subseteq last.pre => store = last.pre)
    /\ \A k \in 1 .. Len(last.events) :
         RecordsOf(store, last.events[k].id) = {last.events[k]}

\* the second of two applications of the same two-event list has returned
C6_Witness ==
  /\ last.fn = "cacheEvents"
  /\ last.outcome = "ok"
  /\ DistinctIds(last.events)
  /\ Len(last.events) = 2
  /\ Range(last.events) \subseteq last.pre
  /\ store = last.pre

(***************************************************************************)
(* C7: getCachedEvents(startDate, endDate) returns exactly the cached      *)
(* events whose start_time lies within [startDate, endDate], each once,    *)
(* in ascending start_time order.                                          *)
(***************************************************************************)
C7_QueryExactAscending ==
  (last.fn = "getCachedEvents" /\ last.outcome = "ok") =>
    /\ Range(last.result)
         = {r \in last.pre : InRange(r, last.startDate, last.endDate)}
    /\ \A j, k \in 1 .. Len(last.result) :
         j < k =>
           /\ last.result[j] # last.result[k]
           /\ last.result[j].start_time.inst <= last.result[k].start_time.inst

(***************************************************************************)
(* C8: range membership is decided on the instant start_time denotes,      *)
(* whatever its representation: getCachedEvents returns a cached event iff *)
(* its instant is within the range, and syncCacheWithApiEvents deletes an  *)
(* unlisted cached event iff its instant is within the range.              *)
(***************************************************************************)
C8_MembershipByInstant ==
  /\ (last.fn = "getCachedEvents" /\ last.outcome = "ok") =>
       \A r \in IndexRecords(last.pre) :
         (r \in Range(last.result))
           <=> InRange(r, last.startDate, last.endDate)
  /\ SyncReturned =>
       \A r \in IndexRecords(last.pre) :
         r.id \notin ListIds(last.events) =>
           ((r \notin store) <=> InRange(r, last.startDate, last.endDate))

(***************************************************************************)
(* C9: a malformed event is rejected: the store never holds a record       *)
(* without id or without start_time.                                       *)
(***************************************************************************)
C9_NoMalformedRecord ==
  \A r \in store : r.id # NoId /\ r.start_time # Missing

(***************************************************************************)
(* C10: syncCacheWithApiEvents is all-or-nothing: when a delete or put of  *)
(* the call fails, the cache is in its pre-call state or in the fully      *)
(* updated state (stale records deleted, every storable event upserted).   *)
(***************************************************************************)
C10_AllOrNothing ==
  (last.fn = "syncCacheWithApiEvents" /\ last.outcome # "ok") =>
    \/ store = last.pre
    \/ store = FullyUpdated(last.pre, last.events, last.startDate,
                            last.endDate)

(***************************************************************************)
(* Vocabulary of the properties of overlapping calls.                      *)
(***************************************************************************)
Reconciling ==
  {"syncCacheWithApiEvents", "removeAllEventsNotInList",
   "removeDeletedEventsFromCache"}

\* the finished call was made while the transaction of `fns` was live
Overlapped(fn, fns) ==
  /\ last.fn = fn
  /\ last.outcome = "ok"
  /\ last.over.fn \in fns

(***************************************************************************)
(* C11: a getCachedEvents made while a syncCacheWithApiEvents,             *)
(* removeAllEventsNotInList or removeDeletedEventsFromCache is under way   *)
(* never observes an intermediate state: what it returns is the query      *)
(* evaluated on the records as they were before that call, or on the       *)
(* records as that call has left them.                                     *)
(***************************************************************************)
C11_NoIntermediateRead ==
  Overlapped("getCachedEvents", Reconciling) =>
    \/ last.result
         = QueryOn(last.over.pre, last.startDate, last.endDate)
    \/ /\ last.over.outcome # "pending"
       /\ last.result
            = QueryOn(last.over.post, last.startDate, last.endDate)

\* the query waited for a reconciliation that changed what it finds
C11_Witness ==
  /\ Overlapped("getCachedEvents", Reconciling)
  /\ last.over.outcome = "ok"
  /\ QueryOn(last.over.pre, last.startDate, last.endDate)
       # QueryOn(last.over.post, last.startDate, last.endDate)
  /\ last.result = QueryOn(last.over.post, last.startDate, last.endDate)

(***************************************************************************)
(* C12: removeAllEventsNotInList / removeDeletedEventsFromCache overlap    *)
(* safely with syncCacheWithApiEvents: whenever two such calls overlap,    *)
(* one of them a purge, the records after both have completed are those    *)
(* of applying the two calls one after the other, and an id whose record   *)
(* the call applied first deleted is present at the end only if the call   *)
(* applied second wrote it.                                                *)
(***************************************************************************)
Purging == {"removeAllEventsNotInList", "removeDeletedEventsFromCache"}

\* what a completed call makes of the records `view`, applied on its own
Effect(call, view) ==
  IF call.fn = "syncCacheWithApiEvents"
  THEN FullyUpdated(view, call.events, call.startDate, call.endDate)
  ELSE {r \in view : r.id \in call.ids}

PurgeOverlapped ==
  /\ last.fn \in Reconciling
  /\ Overlapped(last.fn, Reconciling)
  /\ last.over.outcome = "ok"
  /\ last.fn \in Purging \/ last.over.fn \in Purging

C12_PurgeSerializable ==
  PurgeOverlapped =>
    /\ \/ store = Effect(last, Effect(last.over, last.over.pre))
       \/ store = Effect(last.over, Effect(last, last.over.pre))
    /\ \A id \in Ids :
         (/\ RecordsOf(last.over.pre, id) # {}
          /\ RecordsOf(last.over.post, id) = {}
          /\ RecordsOf(store, id) # {}) =>
           /\ last.fn = "syncCacheWithApiEvents"
           /\ id \in ListIds(last.events)

\* a purge made during a reconciliation that wrote a record has deleted it
C12_Witness ==
  /\ PurgeOverlapped
  /\ last.fn \in Purging
  /\ last.over.fn = "syncCacheWithApiEvents"
  /\ \E r \in last.over.post :
       /\ r \notin last.over.pre
       /\ r \notin store
  /\ store # last.over.pre

(***************************************************************************)
(* C13: when two syncCacheWithApiEvents calls overlap, last applied wins:  *)
(* their scans, deletes and puts do not interleave (the records afterwards *)
(* are those of the first call followed by the second), and after both     *)
(* have completed the cached events whose start_time lies in the range of  *)
(* the call applied last are exactly that call's list.                     *)
(***************************************************************************)
SyncOverlapped ==
  /\ Overlapped("syncCacheWithApiEvents", {"syncCacheWithApiEvents"})
  /\ last.over.outcome = "ok"

C13_NotInterleaved ==
  SyncOverlapped => store = Effect(last, Effect(last.over, last.over.pre))

C13_LastAppliedWins ==
  /\ C13_NotInterleaved
  /\ (SyncOverlapped /\ ListOfRange) =>
       {r \in store : InRange(r, last.startDate, last.endDate)}
         = Range(last.events)

(***************************************************************************)
(* C14: removeAllEventsNotInList(validIds) and                             *)
(* removeDeletedEventsFromCache(validIds) leave exactly the records cached *)
(* before whose id is in validIds, whatever their start_time: every other  *)
(* record is deleted, the kept ones are unchanged, none is created.        *)
(***************************************************************************)
C14_PurgeKeepsValid ==
  (last.fn \in Purging /\ last.outcome = "ok") =>
    store = {r \in last.pre : r.id \in last.ids}

\* a purge has kept one record and deleted another, one that has no
\* start_time
C14_Witness ==
  /\ last.fn \in Purging
  /\ last.outcome = "ok"
  /\ \E r, q \in last.pre :
       /\ r.id \in last.ids
       /\ r \in store
       /\ q.id \notin last.ids
       /\ q.start_time = Missing
       /\ q \notin store

(***************************************************************************)
(* C15: removeEventFromCache(id) for an id that is not cached is a         *)
(* successful no-op: the delete raises no error (the call ends ok, or      *)
(* aborted by a storage fault as any call may) and every cached record is  *)
(* unchanged.                                                              *)
(***************************************************************************)
C15_DeleteAbsentNoOp ==
  (/\ last.fn = "removeEventFromCache"
   /\ RecordsOf(last.pre, last.eventId) = {}) =>
    /\ last.outcome \in {"ok", "aborted"}
    /\ store = last.pre

\* the id was not cached, other records were, and the call succeeded
C15_Witness ==
  /\ last.fn = "removeEventFromCache"
  /\ last.outcome = "ok"
  /\ RecordsOf(last.pre, last.eventId) = {}
  /\ last.pre # {}
  /\ store = last.pre

(***************************************************************************)
(* C16: after removeEventFromCache(A.id) no getCachedEvents returns A      *)
(* until a later put writes that id again, and the delete leaves all       *)
(* other records unchanged: a completed delete removes exactly the record  *)
(* of its id; a query that follows it finds the records the delete left;   *)
(* and every record any query returns is the last write of its id (so an   *)
(* id whose last write is a delete is never returned).                     *)
(***************************************************************************)
C16_DeleteThenQuery ==
  /\ (last.fn = "removeEventFromCache" /\ last.outcome = "ok") =>
       store = {r \in last.pre : r.id # last.eventId}
  /\ (/\ Overlapped("getCachedEvents", {"removeEventFromCache"})
      /\ last.over.outcome = "ok") =>
       /\ \A r \in Range(last.result) : r.id # last.over.eventId
       /\ last.result
            = QueryOn({r \in last.over.pre : r.id # last.over.eventId},
                      last.startDate, last.endDate)
  /\ (last.fn = "getCachedEvents" /\ last.outcome = "ok") =>
       \A r \in Range(last.result) : lastWrite[r.id] = r

\* A was cached inside the queried range, the delete removed it, and the
\* query that followed returned the other record of the range without A
C16_Witness ==
  /\ Overlapped("getCachedEvents", {"removeEventFromCache"})
  /\ last.over.outcome = "ok"
  /\ \E A \in Range(QueryOn(last.over.pre, last.startDate, last.endDate)) :
       /\ A.id = last.over.eventId
       /\ A \notin Range(last.result)
  /\ last.result # <<>>

(***************************************************************************)
(* C17: getCachedEvents is a pure read: no step of the call, from the      *)
(* creation of its transaction to its completion or abort, changes the     *)
(* cached records.                                                         *)
(***************************************************************************)
C17_QueryPureRead ==
  [][(tx.fn = "getCachedEvents" \/ tx'.fn = "getCachedEvents")
       => store' = store]_vars

\* a query has returned records and the cache is as it was
C17_Witness ==
  /\ last.fn = "getCachedEvents"
  /\ last.outcome = "ok"
  /\ last.result # <<>>
  /\ store = last.pre
  /\ Range(last.result) \subseteq store

(***************************************************************************)
(* C18: the cache stores and returns events verbatim: every record a       *)
(* getCachedEvents returns equals, field by field (title included), the    *)
(* event last put for its id; and every event put by cacheEvents or        *)
(* syncCacheWithApiEvents and not overwritten or deleted since is returned *)
(* by a getCachedEvents whose range covers its start_time.                 *)
(***************************************************************************)
C18_ReturnedVerbatim ==
  (last.fn = "getCachedEvents" /\ last.outcome = "ok") =>
    \A r \in Range(last.result) : lastWrite[r.id] = r

C18_StoredVerbatim ==
  /\ C18_ReturnedVerbatim
  /\ (last.fn = "getCachedEvents" /\ last.outcome = "ok") =>
       \A id \in Ids :
         (/\ lastWrite[id] # Absent
          /\ InRange(lastWrite[id], last.startDate, last.endDate)) =>
           lastWrite[id] \in Range(last.result)

(***************************************************************************)
(* C19: clearCache() and clearEventsCache() delete all event records       *)
(* unconditionally: from any cache state, once the call has completed no   *)
(* record is left and getCachedEvents finds nothing for any range.         *)
(***************************************************************************)
C19_ClearEmpties ==
  (last.fn \in {"clearCache", "clearEventsCache"} /\ last.outcome = "ok") =>
    /\ store = {}
    /\ \A r \in DateRanges : QueryOn(store, r[1], r[2]) = <<>>

\* the cache held two records, one of them without start_time, and is empty
C19_Witness ==
  /\ last.fn \in {"clearCache", "clearEventsCache"}
  /\ last.outcome = "ok"
  /\ Cardinality(last.pre) = 2
  /\ \E r \in last.pre : r.start_time = Missing
  /\ store = {}

(***************************************************************************)
(* C20: the cache is never the source of truth: after every successful     *)
(* authoritative read on the normal network path (the month-range          *)
(* listEvents and the wide-range listEvents of loadEvents, the two         *)
(* listEvents of loadUpcomingEvents, getEvent of handleEventClick), once   *)
(* the cache call that follows the read has completed, the cache holds     *)
(* for each event the read returned a record equal to it.                  *)
(***************************************************************************)
\* the handler has made its reads and the cache calls after them completed
ReadsDone(fn, purge) == Running(fn, "purge") /\ Resolved(purge)

C20_ReadsOverwriteCache ==
  /\ (\/ ReadsDone("loadEvents", "removeAllEventsNotInList")
      \/ ReadsDone("loadUpcomingEvents", "removeDeletedEventsFromCache")) =>
       \A e \in Range(Top.response) \cup Range(Top.wide) : e \in store
  /\ page.got # NoEvent => page.got \in store

(***************************************************************************)
(* Vocabulary of the properties of the page.                               *)
(***************************************************************************)
\* the cached events that start within [start, end], by start time
CachedInRange(view, start, end) ==
  ByStart({r \in view : InRange(r, start, end)})

\* loadEvents is in its catch block and the month-range listEvents left no
\* response (it failed, or it answered with no event and
\* syncCacheWithApiEvents failed: the page shows no event in both cases)
ListFailed ==
  /\ Running("loadEvents", "cached")
  /\ Top.response = <<>>

\* the step in which the handler that runs returns
Returns == page'.stack = Tail(page.stack)

(***************************************************************************)
(* C23: when the month-range listEvents of loadEvents fails, loadEvents    *)
(* only queries the cache over the same month: the failure path does not   *)
(* change the cache, and when getCachedEvents has resolved the page shows  *)
(* at the end of loadEvents the cached events that start within the month. *)
(***************************************************************************)
\* the failure path calls getCachedEvents over the month and nothing else,
\* leaves the store alone, and shows what getCachedEvents returned
C23_ReadOnlyFallback ==
  [][ListFailed =>
        /\ store' = store
        /\ tx.fn \in {"none", "getCachedEvents"}
        /\ tx.fn = "getCachedEvents" =>
             tx.startDate = Top.start /\ tx.endDate = Top.end
        /\ (Resolved("getCachedEvents") /\ Returns) =>
             page'.events = last.result]_vars

C23_FallbackShowsCached ==
  [][ListFailed =>
        /\ store' = store
        /\ tx.fn \in {"none", "getCachedEvents"}
        /\ (Resolved("getCachedEvents") /\ Returns) =>
             page'.events = CachedInRange(store, Top.start, Top.end)]_vars

(***************************************************************************)
(* C24: loadEvents and loadUpcomingEvents never remove from the cache an   *)
(* event the server still has: an id that a completed                      *)
(* syncCacheWithApiEvents, removeAllEventsNotInList or                     *)
(* removeDeletedEventsFromCache of theirs has taken out of the cache is    *)
(* not the id of a cached event that the server holds unchanged.           *)
(***************************************************************************)
C24_RemovedAreGone ==
  (/\ page.stack # <<>>
   /\ Top.fn \in {"loadEvents", "loadUpcomingEvents"}
   /\ last.fn \in Reconciling
   /\ last.outcome = "ok") =>
    \A r \in last.pre : RecordsOf(store, r.id) = {} => r \notin page.server

(***************************************************************************)
(* C27: when the month-range listEvents of loadEvents has succeeded, the   *)
(* page shows that response at the end of loadEvents, also when            *)
(* syncCacheWithApiEvents fails after it; cached events replace the shown  *)
(* events only when the listEvents call itself failed.                     *)
(***************************************************************************)
C27_ResponseShown ==
  [][(/\ page.stack # <<>>
      /\ Top.fn = "loadEvents"
      /\ Top.response # <<>>
      /\ Returns) => page'.events = Top.response]_vars

(***************************************************************************)
(* C29: handleEventClick changes the cache only when getEvent fails with   *)
(* 404: then the clicked id is out of the cache before the reload starts   *)
(* and the page does not navigate; when getEvent succeeds or fails with    *)
(* another error, the cache is unchanged, no cache function is called and  *)
(* the page navigates to the event.                                        *)
(***************************************************************************)
\* the handler at the bottom of the stack: the one the user started
Handler == page.stack[Len(page.stack)]

C29_ClickCacheOnlyOn404 ==
  [][(page.stack # <<>> /\ Handler.fn = "handleEventClick") =>
        /\ Handler.pc = "get" => store' = store
        /\ (Handler.pc = "get" /\ Returns) =>
             /\ page'.navigated = Handler.eventId
             /\ tx' = tx
        /\ Handler.pc # "get" => page'.navigated = NoId
        /\ (Running("handleEventClick", "remove") /\ ~Returns
              /\ page'.stack # page.stack) =>
             RecordsOf(store, Handler.eventId) = {}]_vars

\* the clicked event was in the cache, getEvent answered 404, and
\* removeEventFromCache has taken it out
C29_Witness ==
  /\ Running("handleEventClick", "remove")
  /\ Resolved("removeEventFromCache")
  /\ RecordsOf(last.pre, Top.eventId) # {}
  /\ RecordsOf(store, Top.eventId) = {}
  /\ page.navigated = NoId

(***************************************************************************)
(* C21: after a successful remote create or update the caller upserts the  *)
(* resulting event: when CalendarPage.handleSaveEvent returns, and when    *)
(* EventDetailPage.handleSave has set the updated event, the cache holds   *)
(* a record equal to the event the server returned.                        *)
(***************************************************************************)
C21_SavedEventCached ==
  [][/\ (Running("handleSaveEvent", "loadUpcomingEvents") /\ Returns) =>
          Top.response[1] \in store'
     /\ (Detail /\ page.event # NoEvent
           /\ page'.event \notin {NoEvent, page.event}) =>
          page'.event \in store']_vars

(***************************************************************************)
(* C22: after a successful remote delete (CalendarPage.handleDeleteEvent,  *)
(* EventDetailPage.handleDelete) the first thing the handler does with the *)
(* cache is removeEventFromCache of that id, which is out of the cache     *)
(* before the handler goes on; when the remote delete fails, the handler   *)
(* returns without a cache call and the cache is unchanged.                *)
(***************************************************************************)
C22_DeleteThenRemove ==
  [][/\ Running("handleDeleteEvent", "delete") =>
          /\ store' = store
          /\ IF page'.server # page.server
             THEN /\ page'.server = Delete(page.server, Top.eventId)
                  /\ tx'.fn = "removeEventFromCache"
                  /\ tx'.eventId = Top.eventId
             ELSE /\ tx' = tx
                  /\ Returns
     /\ (Detail /\ page.event # NoEvent /\ page'.server # page.server) =>
          /\ store' = store
          /\ IF page'.server = Delete(page.server, page.event.id)
             THEN /\ tx'.fn = "removeEventFromCache"
                  /\ tx'.eventId = page.event.id
             ELSE tx' = tx
     /\ (/\ page.stack # <<>>
         /\ Top.fn \in {"handleDeleteEvent", "handleDelete"}
         /\ Top.pc = "remove") =>
          /\ tx.fn \in {"none", "removeEventFromCache"}
          /\ (page' # page /\ page'.stack # Tail(page.stack)) =>
               RecordsOf(store, Top.eventId) = {}]_vars

\* the server has deleted the event, and removeEventFromCache has taken
\* its record out of the cache
C22_Witness ==
  /\ page.stack # <<>>
  /\ Top.fn \in {"handleDeleteEvent", "handleDelete"}
  /\ Top.pc = "remove"
  /\ Resolved("removeEventFromCache")
  /\ RecordsOf(last.pre, Top.eventId) # {}
  /\ RecordsOf(store, Top.eventId) = {}
  /\ RecordsOf(page.server, Top.eventId) = {}

(***************************************************************************)
(* Vocabulary of the properties of overlapping handler calls.              *)
(***************************************************************************)
\* the loadEvents calls in flight
LoadsInFlight == {i \in Flights : page.flights[i].fn = "loadEvents"}

\* the ids of the events the page shows
Shown == ListIds(page.events) \cup ListIds(page.upcomingEvents)

(***************************************************************************)
(* C25: once the remote delete of handleDeleteEvent has succeeded and      *)
(* removeEventFromCache has completed, the id of the deleted event is      *)
(* neither in the cache nor among the events the page shows, also when a   *)
(* loadEvents or loadUpcomingEvents whose listEvents response the server   *)
(* produced before the delete finishes afterwards.                         *)
(***************************************************************************)
C25_DeletedStaysGone ==
  \A id \in page.removed : RecordsOf(store, id) = {} /\ id \notin Shown

(***************************************************************************)
(* C26: when every loadEvents call that overlapped has completed, the page *)
(* shows events of the month of currentDate, the month of the call that    *)
(* started last, in whatever order the responses arrived.                  *)
(***************************************************************************)
C26_ShowsCurrentMonth ==
  LoadsInFlight = {} =>
    \A k \in 1 .. Len(page.events) :
      InRange(page.events[k], page.currentDate[1], page.currentDate[2])

(***************************************************************************)
(* C28: loading is true whenever a loadEvents call is in flight, and is    *)
(* false once every loadEvents call that was started has finished.         *)
(***************************************************************************)
C28_LoadingWhileInFlight ==
  [][/\ LoadsInFlight' # {} => page'.loading
     /\ (LoadsInFlight # {} /\ LoadsInFlight' = {}) => ~page'.loading]_vars

(***************************************************************************)
(* C30: the store handle is opened once and reused: whatever way the cache *)
(* calls of overlapping handlers interleave, also those made before the    *)
(* first openDB has resolved, openDB is invoked at most once and every     *)
(* caller receives the same handle.                                        *)
(***************************************************************************)
\* the handles openDB was invoked for: those awaited or received by a call
\* in flight, and the one in db
Opened ==
  ({page.flights[i].handle : i \in Flights} \cup {db}) \ {"null"}

C30_OpenedOnce == Cardinality(Opened) <= 1

====
